---- MODULE Spec2Model ----
(***************************************************************************)
(* Model of two parts of the image-fitting code:                           *)
(*   - image_io.cpp: ReadImageAsVector, SaveVectorAsImage, PrintError      *)
(*     (and GetImageSize, of which only the unit tests are available);     *)
(*   - func1d_gaussian.cpp: Gaussian1D::Setup and Gaussian1D::GetValue,    *)
(*     with the parameter layout of ExponentialDisk3D.                     *)
(* Doubles of the image code are fixed-point integers counted in units of  *)
(* 2^-24; doubles of the function objects are exact rationals extended     *)
(* with the IEEE values +inf and NaN.                                      *)
(***************************************************************************)
EXTENDS Integers, Sequences, FiniteSets, TLC

VARIABLES fs, pc, exitStatus, call, ret, out, saved,
          shortFunctionName, params, ZP, x0, mu_0, sigma, I_0, disk, fnCall, readSet, value,
          setupArgs

ioVars == <<fs, pc, exitStatus, call, ret, out, saved>>
fnVars == <<shortFunctionName, params, ZP, x0, mu_0, sigma, I_0, disk, fnCall, readSet, value,
          setupArgs>>
vars == <<fs, pc, exitStatus, call, ret, out, saved,
          shortFunctionName, params, ZP, x0, mu_0, sigma, I_0, disk, fnCall, readSet, value,
          setupArgs>>

(***************************************************************************)
(* Bounds of the model.                                                    *)
(***************************************************************************)
MaxDim == 2
NPatterns == 2

(***************************************************************************)
(* Numbers of the image code.                                              *)
(***************************************************************************)
Unit == 2^24

Abs(n) == IF n < 0 THEN -n ELSE n

\* the pixel values the inputs are drawn from: 1.0, 9.0 (tinyImage),
\* 20.903625 (VALUE_LL, to the nearest unit), 32 + 20 units and -(48 + 33 units)
PixelTable == <<1 * Unit, 9 * Unit, 350704632, 32 * Unit + 20, -(48 * Unit + 33)>>

\* TS_ASSERT_DELTA(x, y, 1.0e-6): |x - y| <= 1e-6, i.e. at most 16 units
WithinTestDelta(a, b) == Abs(a - b) <= Unit \div 1000000

RECURSIVE Spacing(_, _)
Spacing(m, q) == IF m \div q < Unit THEN q ELSE Spacing(m, 2 * q)

RoundToMultiple(m, q) ==
    LET lo == (m \div q) * q
        rem == m - lo
    IN  IF 2 * rem < q THEN lo
        ELSE IF 2 * rem > q THEN lo + q
        ELSE IF (m \div q) % 2 = 0 THEN lo ELSE lo + q

\* conversion of a double to the single-precision format of a FLOAT_IMG
\* (24-bit significand, round to nearest, ties to even)
FloatRound(n) ==
    IF n < 0 THEN -RoundToMultiple(-n, Spacing(-n, 1))
    ELSE RoundToMultiple(n, Spacing(n, 1))

FLOAT_IMG == -32
DOUBLE_IMG == -64
FILE_NOT_OPENED == 104
FILE_NOT_CREATED == 105

(***************************************************************************)
(* Files.                                                                  *)
(***************************************************************************)
TEST_IMAGE == "tests/testimage.fits"
BAD_IMAGE_NAME == "no_image_with_this_name.fits"
IMPOSSIBLE_IMAGE_FILENAME == "/arglebargle.fits"
TINY_IMAGE_FILENAME == "tinyimage_temp.fits"

Filenames == {TEST_IMAGE, BAD_IMAGE_NAME, IMPOSSIBLE_IMAGE_FILENAME, TINY_IMAGE_FILENAME}
ReadNames == {TEST_IMAGE, BAD_IMAGE_NAME, TINY_IMAGE_FILENAME}
WriteNames == {IMPOSSIBLE_IMAGE_FILENAME, TINY_IMAGE_FILENAME}

\* the root directory is not writable by the process
Creatable(filename) == filename # IMPOSSIBLE_IMAGE_FILENAME

NoImage == [bitpix |-> 0, naxes |-> <<0, 0>>, pixel |-> <<>>, comments |-> <<>>, date |-> FALSE]
NoFile == [exists |-> FALSE, img |-> NoImage]

Pixels(naxes) == (1..naxes[1]) \X (1..naxes[2])

CommentLists == {<<>>, <<"Here is a comment", "this is a second comment">>}

\* an in-memory image of nColumns*nRows doubles (index k of the C array is k+1 here)
ImageVector(nColumns, nRows, p) ==
    [k \in 1..(nColumns * nRows) |-> PixelTable[((k - 1 + p) % Len(PixelTable)) + 1]]

\* an image file made by another program, in either floating-point format
ForeignImage(bitpix, nColumns, nRows, p) ==
    [bitpix |-> bitpix, naxes |-> <<nColumns, nRows>>,
     pixel |-> [xy \in Pixels(<<nColumns, nRows>>) |->
                  LET d == PixelTable[((xy[1] + 2 * xy[2] + p) % Len(PixelTable)) + 1]
                  IN  IF bitpix = FLOAT_IMG THEN FloatRound(d) ELSE d],
     comments |-> <<>>, date |-> FALSE]

(***************************************************************************)
(* The cfitsio calls made by image_io.cpp.  Each returns the status, and   *)
(* does nothing when the status it is given is already nonzero.            *)
(***************************************************************************)
fits_open_file(fsys, filename, status) ==
    IF status # 0 THEN [status |-> status, img |-> NoImage]
    ELSE IF fsys[filename].exists THEN [status |-> 0, img |-> fsys[filename].img]
    ELSE [status |-> FILE_NOT_OPENED, img |-> NoImage]

fits_read_keys_lng(img, status) ==
    [status |-> status, naxes |-> img.naxes]

\* reads nelem pixels in file order (first axis fastest) starting at firstPixel
fits_read_pix(img, firstPixel, nelem, status) ==
    LET first == (firstPixel[1] - 1) + (firstPixel[2] - 1) * img.naxes[1]
    IN  [status |-> status,
         array |-> [k \in 1..nelem |->
                      img.pixel[<<((first + k - 1) % img.naxes[1]) + 1,
                                  ((first + k - 1) \div img.naxes[1]) + 1>>]]]

fits_create_file(filename, status) ==
    IF status # 0 THEN status
    ELSE IF Creatable(filename) THEN 0 ELSE FILE_NOT_CREATED

fits_create_img(bitpix, naxes, status) ==
    [status |-> status,
     img |-> IF status # 0 THEN NoImage
             ELSE [bitpix |-> bitpix, naxes |-> naxes,
                   pixel |-> [xy \in Pixels(naxes) |-> 0],
                   comments |-> <<>>, date |-> FALSE]]

fits_write_comment(img, comment, status) ==
    IF status # 0 THEN img ELSE [img EXCEPT !.comments = Append(@, comment)]

\* for (int i = 0; i < comments.size(); i++) fits_write_comment(...)
RECURSIVE WriteComments(_, _, _, _)
WriteComments(img, comments, i, status) ==
    IF i > Len(comments) THEN img
    ELSE WriteComments(fits_write_comment(img, comments[i], status), comments, i + 1, status)

fits_write_date(img, status) ==
    IF status # 0 THEN img ELSE [img EXCEPT !.date = TRUE]

\* writes nelem doubles in file order starting at firstPixel, converted to
\* the format of the image
fits_write_pix(img, firstPixel, nelem, array, status) ==
    LET first == (firstPixel[1] - 1) + (firstPixel[2] - 1) * img.naxes[1]
        Index(xy) == (xy[1] - 1) + (xy[2] - 1) * img.naxes[1] - first + 1
        Convert(d) == IF img.bitpix = FLOAT_IMG THEN FloatRound(d) ELSE d
    IN  IF status # 0 THEN [status |-> status, img |-> img]
        ELSE [status |-> 0,
              img |-> [img EXCEPT !.pixel =
                         [xy \in Pixels(img.naxes) |->
                            IF Index(xy) \in 1..nelem THEN Convert(array[Index(xy)])
                            ELSE img.pixel[xy]]]]

\* PrintError: exits the process when the status is nonzero
PrintError(status) ==
    IF status # 0 THEN [pc |-> "exited", exitStatus |-> status]
    ELSE [pc |-> "running", exitStatus |-> 0]

fits_close_file(status) == status

(***************************************************************************)
(* Results of a call as the caller sees them.                              *)
(***************************************************************************)
NoReturn == [kind |-> "none", buf |-> <<>>, val |-> 0]
VoidReturn == [kind |-> "void", buf |-> <<>>, val |-> 0]
PointerReturn(array) == [kind |-> "pointer", buf |-> array, val |-> 0]
IntReturn(n) == [kind |-> "int", buf |-> <<>>, val |-> n]

\* the caller's nCols and nRows before the call has stored anything in them
NotStored == [nColumns |-> 0, nRows |-> 0, stored |-> FALSE]

NoCall == [op |-> "none", filename |-> "", pixelVector |-> <<>>,
           nColumns |-> 0, nRows |-> 0, comments |-> <<>>]
NoSave == [valid |-> FALSE, pixelVector |-> <<>>, nColumns |-> 0, nRows |-> 0,
           comments |-> <<>>]

(***************************************************************************)
(* ReadImageAsVector                                                       *)
(***************************************************************************)
ImageSize_swapped(naxes) == [n_columns |-> naxes[2], n_rows |-> naxes[1]]

\* n_columns = naxes[0]; n_rows = naxes[1];
ImageSize(naxes) == [n_columns |-> naxes[1], n_rows |-> naxes[2]]

ReadImageAsVector(filename) ==
    /\ pc = "running"
    /\ LET opened == fits_open_file(fs, filename, 0)
           afterOpen == PrintError(opened.status)
           keys == fits_read_keys_lng(opened.img, opened.status)
           afterKeys == PrintError(keys.status)
           n_columns == ImageSize(keys.naxes).n_columns
           n_rows == ImageSize(keys.naxes).n_rows
           nPixelsTot == n_columns * n_rows
           pix == fits_read_pix(opened.img, <<1, 1>>, nPixelsTot, keys.status)
           afterPix == PrintError(pix.status)
           closed == fits_close_file(pix.status)
           afterClose == PrintError(closed)
       IN  /\ call' = [NoCall EXCEPT !.op = "ReadImageAsVector", !.filename = filename]
           /\ IF opened.status # 0 /\ afterOpen.pc = "exited"
              THEN /\ pc' = "exited"
                   /\ exitStatus' = afterOpen.exitStatus
                   /\ ret' = NoReturn
                   /\ out' = NotStored
              ELSE IF keys.status # 0 /\ afterKeys.pc = "exited"
              THEN /\ pc' = "exited"
                   /\ exitStatus' = afterKeys.exitStatus
                   /\ ret' = NoReturn
                   /\ out' = NotStored
              ELSE IF pix.status # 0 /\ afterPix.pc = "exited"
              THEN /\ pc' = "exited"
                   /\ exitStatus' = afterPix.exitStatus
                   /\ ret' = NoReturn
                   /\ out' = [nColumns |-> n_columns, nRows |-> n_rows, stored |-> TRUE]
              ELSE IF closed # 0 /\ afterClose.pc = "exited"
              THEN /\ pc' = "exited"
                   /\ exitStatus' = afterClose.exitStatus
                   /\ ret' = NoReturn
                   /\ out' = [nColumns |-> n_columns, nRows |-> n_rows, stored |-> TRUE]
              ELSE /\ out' = [nColumns |-> n_columns, nRows |-> n_rows, stored |-> TRUE]
                   /\ ret' = PointerReturn(pix.array)
                   /\ UNCHANGED <<pc, exitStatus>>
    /\ UNCHANGED <<fs, saved>>
    /\ UNCHANGED fnVars

(***************************************************************************)
(* SaveVectorAsImage                                                       *)
(***************************************************************************)
ImageAxes_swapped(nColumns, nRows) == <<nRows, nColumns>>

\* naxes[0] = nColumns; naxes[1] = nRows;
ImageAxes(nColumns, nRows) == <<nColumns, nRows>>

SaveVectorAsImage(pixelVector, filename, nColumns, nRows, comments) ==
    /\ pc = "running"
    /\ LET naxes == ImageAxes(nColumns, nRows)
           nPixels == nColumns * nRows
           created == fits_create_file(filename, 0)
           primary == fits_create_img(FLOAT_IMG, naxes, created)
           commented == IF Len(comments) > 0
                        THEN WriteComments(primary.img, comments, 1, primary.status)
                        ELSE primary.img
           dated == fits_write_date(commented, primary.status)
           written == fits_write_pix(dated, <<1, 1>>, nPixels, pixelVector, primary.status)
           afterWrite == PrintError(written.status)
           closed == fits_close_file(written.status)
           afterClose == PrintError(closed)
       IN  /\ call' = [op |-> "SaveVectorAsImage", filename |-> filename,
                       pixelVector |-> pixelVector, nColumns |-> nColumns,
                       nRows |-> nRows, comments |-> comments]
           /\ IF written.status # 0 /\ afterWrite.pc = "exited"
              THEN /\ pc' = "exited"
                   /\ exitStatus' = afterWrite.exitStatus
                   /\ ret' = NoReturn
                   /\ UNCHANGED <<fs, saved>>
              ELSE IF closed # 0 /\ afterClose.pc = "exited"
              THEN /\ pc' = "exited"
                   /\ exitStatus' = afterClose.exitStatus
                   /\ ret' = NoReturn
                   /\ UNCHANGED <<fs, saved>>
              ELSE /\ fs' = [fs EXCEPT ![filename] = [exists |-> TRUE, img |-> written.img]]
                   /\ saved' = [saved EXCEPT ![filename] =
                                   [valid |-> TRUE, pixelVector |-> pixelVector,
                                    nColumns |-> nColumns, nRows |-> nRows,
                                    comments |-> comments]]
                   /\ ret' = VoidReturn
                   /\ UNCHANGED <<pc, exitStatus>>
    /\ out' = NotStored
    /\ UNCHANGED fnVars

(***************************************************************************)
(* GetImageSize (image_io.cpp of the unit tests; only the tests are given) *)
(***************************************************************************)
GetImageSizeStatus_raw(status) == status

GetImageSizeStatus(status) == IF status # 0 THEN -1 ELSE 0

GetImageSize(filename) ==
    /\ pc = "running"
    /\ LET opened == fits_open_file(fs, filename, 0)
           keys == fits_read_keys_lng(opened.img, opened.status)
       IN  /\ call' = [NoCall EXCEPT !.op = "GetImageSize", !.filename = filename]
           /\ ret' = IntReturn(GetImageSizeStatus(opened.status))
           /\ IF opened.status # 0
              THEN out' = NotStored
              ELSE
                   out' = [nColumns |-> keys.naxes[1], nRows |-> keys.naxes[2],
                           stored |-> TRUE]
    /\ UNCHANGED <<fs, saved, pc, exitStatus>>
    /\ UNCHANGED fnVars

(***************************************************************************)
(* Arithmetic of the function objects: exact rationals <<n, d>>, d > 0,    *)
(* in lowest terms, extended with the infinities and NaN.                  *)
(***************************************************************************)
RECURSIVE GCD(_, _)
GCD(a, b) == IF b = 0 THEN a ELSE GCD(b, a % b)

R(n, d) ==
    LET g == GCD(Abs(n), Abs(d))
    IN  IF d < 0 THEN <<(-n) \div g, (-d) \div g>> ELSE <<n \div g, d \div g>>

Fin(r) == [k |-> "fin", v |-> r]
Num(n) == Fin(<<n, 1>>)
PosInf == [k |-> "inf", v |-> <<1, 1>>]
NegInf == [k |-> "inf", v |-> <<-1, 1>>]
NaN == [k |-> "nan", v |-> <<0, 1>>]

Sgn(a) == IF a.v[1] > 0 THEN 1 ELSE IF a.v[1] < 0 THEN -1 ELSE 0
Signed(s) == IF s < 0 THEN NegInf ELSE PosInf

FNeg(a) == IF a.k = "nan" THEN NaN ELSE [a EXCEPT !.v = <<-a.v[1], a.v[2]>>]

FSub(a, b) ==
    IF a.k = "nan" \/ b.k = "nan" THEN NaN
    ELSE IF a.k = "fin" /\ b.k = "fin"
         THEN Fin(R(a.v[1] * b.v[2] - b.v[1] * a.v[2], a.v[2] * b.v[2]))
    ELSE IF a.k = "inf" /\ b.k = "inf"
         THEN IF Sgn(a) = Sgn(b) THEN NaN ELSE a
    ELSE IF a.k = "inf" THEN a ELSE FNeg(b)

fabs(a) ==
    IF a.k = "nan" THEN NaN
    ELSE IF a.k = "inf" THEN PosInf
    ELSE Fin(<<Abs(a.v[1]), a.v[2]>>)

FMul(a, b) ==
    IF a.k = "nan" \/ b.k = "nan" THEN NaN
    ELSE IF a.k = "fin" /\ b.k = "fin"
         THEN Fin(R(a.v[1] * b.v[1], a.v[2] * b.v[2]))
    ELSE IF Sgn(a) = 0 \/ Sgn(b) = 0 THEN NaN
    ELSE Signed(Sgn(a) * Sgn(b))

FDiv(a, b) ==
    IF a.k = "nan" \/ b.k = "nan" THEN NaN
    ELSE IF a.k = "inf" /\ b.k = "inf" THEN NaN
    ELSE IF a.k = "inf" THEN Signed(IF Sgn(b) < 0 THEN -Sgn(a) ELSE Sgn(a))
    ELSE IF b.k = "inf" THEN Num(0)
    ELSE IF Sgn(b) = 0
         THEN IF Sgn(a) = 0 THEN NaN ELSE Signed(Sgn(a))
    ELSE Fin(R(a.v[1] * b.v[2], a.v[2] * b.v[1]))

\* exp(a): e^q stays symbolic for a finite q # 0
exp(a) ==
    IF a.k = "nan" THEN [k |-> "nan", q |-> <<0, 1>>]
    ELSE IF a.k = "inf" THEN [k |-> IF Sgn(a) < 0 THEN "zero" ELSE "inf", q |-> <<0, 1>>]
    ELSE [k |-> "exp", q |-> a.v]

\* pow(10.0, a): 10^r stays symbolic
pow10(a) ==
    IF a.k = "fin" THEN [k |-> "p10", r |-> a.v] ELSE [k |-> "nan", r |-> <<0, 1>>]

\* the product I_0 * exp(exponent): 10^p * e^q, zero, infinite or NaN
Intensity(k, p, q) == [k |-> k, p |-> p, q |-> q]
Times(i0, e) ==
    IF i0.k = "nan" \/ e.k = "nan" THEN Intensity("nan", <<0, 1>>, <<0, 1>>)
    ELSE IF e.k = "zero" THEN Intensity("zero", <<0, 1>>, <<0, 1>>)
    ELSE IF e.k = "inf" THEN Intensity("inf", <<0, 1>>, <<0, 1>>)
    ELSE Intensity("finite", i0.r, e.q)

\* exp(n/d), n <= 0, in units of 1e-7: the Taylor series of the exponential
RECURSIVE ExpSeries(_, _, _, _)
ExpSeries(n, d, k, term) ==
    IF k > 12 \/ term = 0 THEN term
    ELSE term + ExpSeries(n, d, k + 1, (term * n) \div (d * k))

RECURSIVE Pow10Int(_)
Pow10Int(n) == IF n = 0 THEN 1 ELSE 10 * Pow10Int(n - 1)

\* the number 10^p * e^q in units of 1e-7, for an integer p >= 0
NumericE7(v) == Pow10Int(v.p[1]) * ExpSeries(v.q[1], v.q[2], 1, 10000000)

(***************************************************************************)
(* Gaussian1D                                                              *)
(***************************************************************************)
N_PARAMS == 2
PARAM_LABELS == <<"mu_0", "sigma">>
CLASS_SHORT_NAME == "Gaussian-1D"

MaxOffset == 5

\* parameter vectors of the caller, centres, evaluation points and the values
\* an uninitialised or out-of-range double may hold
ParamVectors == {<<20, 3, 15, 0, 22, 2>>, <<25, -3, 20, 1, 10, 4>>}
Centres == {15, 16}
XValues == 13..19
ZeroPoints == {25, 24}
Garbage == {0, 7}

ParamAt_noOffset(i, offsetIndex, beyond) ==
    IF i + 1 \in DOMAIN params THEN params[i + 1] ELSE beyond[i]

\* params[i + offsetIndex] of the C code; beyond the end of the array the value
\* is arbitrary
ParamAt(i, offsetIndex, beyond) ==
    IF i + offsetIndex + 1 \in DOMAIN params THEN params[i + offsetIndex + 1] ELSE beyond[i]

NoFnCall == [op |-> "none", offsetIndex |-> 0, xc |-> 0, x |-> 0, params |-> <<>>]
NoSetup == [done |-> FALSE, count |-> 0, xc |-> 0, mu_0 |-> 0, sigma |-> 0, ZP |-> 0]
NoValue == Intensity("none", <<0, 1>>, <<0, 1>>)

Gaussian1D_Setup(offsetIndex, xc, beyond) ==
    LET new_mu_0 == ParamAt(0, offsetIndex, beyond)
        new_sigma == ParamAt(1, offsetIndex, beyond)
    IN  /\ shortFunctionName = CLASS_SHORT_NAME
        /\ x0' = xc
        /\ mu_0' = new_mu_0
        /\ sigma' = new_sigma
        /\ I_0' = pow10(FMul(Fin(R(4, 10)), FSub(Num(ZP), Num(new_mu_0))))
        /\ readSet' = {0 + offsetIndex, 1 + offsetIndex}
        /\ fnCall' = [op |-> "Setup", offsetIndex |-> offsetIndex, xc |-> xc, x |-> 0,
                      params |-> params]
        /\ setupArgs' = [done |-> TRUE,
                         count |-> IF setupArgs.count < 2 THEN setupArgs.count + 1 ELSE 2,
                         xc |-> xc, mu_0 |-> new_mu_0, sigma |-> new_sigma, ZP |-> ZP]
        /\ UNCHANGED <<shortFunctionName, params, ZP, value, disk>>
        /\ UNCHANGED ioVars

GetValueOf_noHalf(x, f_x0, f_sigma, f_I_0) ==
    LET scaledDeltaR == FDiv(fabs(FSub(Num(x), Num(f_x0))), Num(f_sigma))
        exponent == FNeg(FMul(scaledDeltaR, scaledDeltaR))
    IN  Times(f_I_0, exp(exponent))

GetValueOf_noSquare(x, f_x0, f_sigma, f_I_0) ==
    LET scaledDeltaR == FDiv(fabs(FSub(Num(x), Num(f_x0))), Num(f_sigma))
        exponent == FDiv(FNeg(scaledDeltaR), Num(2))
    IN  Times(f_I_0, exp(exponent))

\* the value GetValue returns for the fields it reads
GetValueOf(x, f_x0, f_sigma, f_I_0) ==
    LET scaledDeltaR == FDiv(fabs(FSub(Num(x), Num(f_x0))), Num(f_sigma))
        exponent == FDiv(FNeg(FMul(scaledDeltaR, scaledDeltaR)), Num(2))
    IN  Times(f_I_0, exp(exponent))

Gaussian1D_GetValue_stateful(x) ==
    /\ shortFunctionName = CLASS_SHORT_NAME
    /\ value' = GetValueOf(x, x0, sigma, I_0)
    /\ fnCall' = [op |-> "GetValue", offsetIndex |-> 0, xc |-> 0, x |-> x,
                  params |-> params]
    /\ readSet' = {}
    /\ x0' = x
    /\ UNCHANGED <<shortFunctionName, params, ZP, mu_0, sigma, I_0, setupArgs, disk>>
    /\ UNCHANGED ioVars

Gaussian1D_GetValue(x) ==
    /\ shortFunctionName = CLASS_SHORT_NAME
    /\ value' = GetValueOf(x, x0, sigma, I_0)
    /\ fnCall' = [op |-> "GetValue", offsetIndex |-> 0, xc |-> 0, x |-> x,
                  params |-> params]
    /\ readSet' = {}
    /\ UNCHANGED <<shortFunctionName, params, ZP, x0, mu_0, sigma, I_0, setupArgs, disk>>
    /\ UNCHANGED ioVars

(***************************************************************************)
(* ExponentialDisk3D: the parameter layout of func_expdisk3d.h             *)
(***************************************************************************)
DISK_PARAM_LABELS == <<"PA", "inclination", "I_0", "h", "h_z">>
DISK_CLASS_NAME == "ExponentialDisk3D"

NoDisk == [x0 |-> 0, y0 |-> 0, PA |-> 0, inclination |-> 0, I_0 |-> 0, h |-> 0, h_z |-> 0]

ExponentialDisk3D_Setup(offsetIndex, xc, yc, beyond) ==
    /\ shortFunctionName = DISK_CLASS_NAME
    /\ disk' = [x0 |-> xc, y0 |-> yc,
                PA |-> ParamAt(0, offsetIndex, beyond),
                inclination |-> ParamAt(1, offsetIndex, beyond),
                I_0 |-> ParamAt(2, offsetIndex, beyond),
                h |-> ParamAt(3, offsetIndex, beyond),
                h_z |-> ParamAt(4, offsetIndex, beyond)]
    /\ readSet' = {0 + offsetIndex, 1 + offsetIndex, 2 + offsetIndex, 3 + offsetIndex,
                   4 + offsetIndex}
    /\ fnCall' = [op |-> "DiskSetup", offsetIndex |-> offsetIndex, xc |-> xc, x |-> yc,
                  params |-> params]
    /\ UNCHANGED <<shortFunctionName, params, ZP, x0, mu_0, sigma, I_0, value, setupArgs>>
    /\ UNCHANGED ioVars

(***************************************************************************)
(* Specifications                                                          *)
(***************************************************************************)
IoIdle ==
    /\ fs = [f \in Filenames |-> NoFile]
    /\ pc = "running"
    /\ exitStatus = 0
    /\ call = NoCall
    /\ ret = NoReturn
    /\ out = NotStored
    /\ saved = [f \in Filenames |-> NoSave]

FnIdle ==
    /\ shortFunctionName = ""
    /\ params = <<>>
    /\ ZP = 25
    /\ x0 = 0
    /\ mu_0 = 0
    /\ sigma = 0
    /\ I_0 = pow10(NaN)
    /\ disk = NoDisk
    /\ fnCall = NoFnCall
    /\ readSet = {}
    /\ value = NoValue
    /\ setupArgs = NoSetup

InitIO ==
    /\ \E bitpix \in {FLOAT_IMG, DOUBLE_IMG}, nColumns \in 1..MaxDim, nRows \in 1..MaxDim :
          fs = [f \in Filenames |->
                  IF f = TEST_IMAGE
                  THEN [exists |-> TRUE, img |-> ForeignImage(bitpix, nColumns, nRows, 0)]
                  ELSE NoFile]
    /\ pc = "running"
    /\ exitStatus = 0
    /\ call = NoCall
    /\ ret = NoReturn
    /\ out = NotStored
    /\ saved = [f \in Filenames |-> NoSave]
    /\ FnIdle

NextIO ==
    \/ \E filename \in ReadNames : ReadImageAsVector(filename)
    \/ \E filename \in WriteNames, nColumns \in 1..MaxDim, nRows \in 1..MaxDim,
          p \in 0..(NPatterns - 1), comments \in CommentLists :
          SaveVectorAsImage(ImageVector(nColumns, nRows, p), filename, nColumns, nRows,
                            comments)
    \/ \E filename \in ReadNames : GetImageSize(filename)

SpecIO == InitIO /\ [][NextIO]_vars

\* the constructor leaves x0, mu_0, sigma and I_0 uninitialised
InitFn ==
    /\ shortFunctionName \in {CLASS_SHORT_NAME, DISK_CLASS_NAME}
    /\ params \in ParamVectors
    /\ ZP \in ZeroPoints
    /\ IF shortFunctionName = CLASS_SHORT_NAME
       THEN /\ x0 \in Garbage
            /\ mu_0 \in Garbage
            /\ sigma \in Garbage
            /\ I_0 \in {pow10(NaN), pow10(Num(0))}
       ELSE /\ x0 = 0
            /\ mu_0 = 0
            /\ sigma = 0
            /\ I_0 = pow10(NaN)
    /\ disk = NoDisk
    /\ fnCall = NoFnCall
    /\ readSet = {}
    /\ value = NoValue
    /\ setupArgs = NoSetup
    /\ IoIdle

NextFn ==
    \/ \E offsetIndex \in 0..MaxOffset, xc \in Centres,
          beyond \in [0..(N_PARAMS - 1) -> Garbage] :
          Gaussian1D_Setup(offsetIndex, xc, beyond)
    \/ \E x \in XValues : Gaussian1D_GetValue(x)
    \/ \E offsetIndex \in 0..MaxOffset, xc \in Centres, yc \in Centres,
          beyond \in {[i \in 0..(Len(DISK_PARAM_LABELS) - 1) |-> g] : g \in Garbage} :
          ExponentialDisk3D_Setup(offsetIndex, xc, yc, beyond)

SpecFn == InitFn /\ [][NextFn]_vars

(***************************************************************************)
(* Properties of image_io.cpp (checked under SpecIO)                       *)
(***************************************************************************)
ReadReturned == call.op = "ReadImageAsVector" /\ ret.kind = "pointer"

\* C1: ReadImageAsVector of a file that cannot be opened returns NULL to its
\* caller: the process keeps running and no buffer is returned.
C1_ReadFailureReturnsNull ==
    (call.op = "ReadImageAsVector" /\ ~fs[call.filename].exists)
        => (pc = "running" /\ ret.kind = "null")

\* C2: SaveVectorAsImage returns an integer status to its caller: 0 when the
\* image was written and closed, -1 (the process still running) when the file
\* cannot be created.
C2_SaveReturnsStatus ==
    call.op = "SaveVectorAsImage"
        => /\ pc = "running"
           /\ ret.kind = "int"
           /\ ret.val = IF Creatable(call.filename) THEN 0 ELSE -1

\* C3 (as stated): after a successful SaveVectorAsImage(v, f, nColumns, nRows,
\* comments), ReadImageAsVector(f) stores the same nColumns and nRows and returns
\* a vector whose every pixel is within 1e-6 of v[k].
C3_RoundTripWithinDelta ==
    (ReadReturned /\ saved[call.filename].valid)
        => LET sv == saved[call.filename]
           IN  /\ out.nColumns = sv.nColumns
               /\ out.nRows = sv.nRows
               /\ Len(ret.buf) = sv.nColumns * sv.nRows
               /\ \A k \in 1..Len(ret.buf) : WithinTestDelta(ret.buf[k], sv.pixelVector[k])

\* C3 (amended): after a successful SaveVectorAsImage(v, f, nColumns, nRows,
\* comments), with or without comments, ReadImageAsVector(f) stores the same
\* nColumns and nRows and returns a vector whose pixel k is v[k] rounded to
\* single precision, which is within 1e-6 of v[k] whenever |v[k]| < 32.
C3_RoundTripSinglePrecision ==
    (ReadReturned /\ saved[call.filename].valid)
        => LET sv == saved[call.filename]
           IN  /\ out.nColumns = sv.nColumns
               /\ out.nRows = sv.nRows
               /\ Len(ret.buf) = sv.nColumns * sv.nRows
               /\ \A k \in 1..Len(ret.buf) :
                     /\ ret.buf[k] = FloatRound(sv.pixelVector[k])
                     /\ Abs(sv.pixelVector[k]) < 32 * Unit
                           => WithinTestDelta(ret.buf[k], sv.pixelVector[k])

C3_Witness ==
    /\ ReadReturned
    /\ saved[call.filename].valid
    /\ saved[call.filename].comments # <<>>
    /\ \E k \in 1..Len(ret.buf) : ret.buf[k] # saved[call.filename].pixelVector[k]

\* C4: on success ReadImageAsVector stores NAXIS1 in *nColumns and NAXIS2 in
\* *nRows and returns nColumns*nRows doubles in row-major order: image pixel
\* (i, j), 0-based, which is FITS pixel (i+1, j+1), is at index j*nColumns + i.
C4_ReadLayout ==
    ReadReturned
        => LET img == fs[call.filename].img
           IN  /\ out.nColumns = img.naxes[1]
               /\ out.nRows = img.naxes[2]
               /\ Len(ret.buf) = out.nColumns * out.nRows
               /\ \A i \in 0..(out.nColumns - 1), j \in 0..(out.nRows - 1) :
                     ret.buf[j * out.nColumns + i + 1] = img.pixel[<<i + 1, j + 1>>]

C4_Witness ==
    /\ ReadReturned
    /\ out.nColumns > 1
    /\ out.nRows > 1
    /\ ret.buf[1] # ret.buf[Len(ret.buf)]

\* C8: GetImageSize of a file that cannot be opened returns -1 to its caller
\* (the process keeps running); of a readable image it stores the column count
\* in nCols and the row count in nRows.
C8_GetImageSize ==
    call.op = "GetImageSize"
        => /\ pc = "running"
           /\ IF fs[call.filename].exists
              THEN /\ out.stored
                   /\ out.nColumns = fs[call.filename].img.naxes[1]
                   /\ out.nRows = fs[call.filename].img.naxes[2]
              ELSE ret = IntReturn(-1)

C8_Witness ==
    /\ call.op = "GetImageSize"
    /\ ~fs[call.filename].exists
    /\ ret.val = -1

(***************************************************************************)
(* Properties of the function objects (checked under SpecFn)               *)
(***************************************************************************)
GaussianField(label) == IF label = "mu_0" THEN mu_0 ELSE sigma

\* I_0 * exp(-(x - xc)^2 / (2 sigma^2)) with I_0 = 10^(0.4 (ZP - mu_0))
ClosedForm(x, a) ==
    Intensity("finite", R(2 * (a.ZP - a.mu_0), 5),
              R(-((x - a.xc) * (x - a.xc)), 2 * a.sigma * a.sigma))

\* C5: Setup(params, offsetIndex, xc) reads exactly the nParams entries
\* params[offsetIndex] .. params[offsetIndex + nParams - 1], in the order of the
\* parameter labels, takes the centre from xc and leaves the parameter vector
\* as it was (Gaussian-1D: mu_0, sigma; ExponentialDisk3D: PA, inclination,
\* I_0, h, h_z).
C5_SetupReadsItsSlice ==
    /\ fnCall.op = "Setup"
          => /\ N_PARAMS = Len(PARAM_LABELS)
             /\ readSet = {fnCall.offsetIndex + i : i \in 0..(N_PARAMS - 1)}
             /\ params = fnCall.params
             /\ x0 = fnCall.xc
             /\ \A i \in 1..N_PARAMS :
                   fnCall.offsetIndex + i \in DOMAIN params
                      => GaussianField(PARAM_LABELS[i]) = params[fnCall.offsetIndex + i]
    /\ fnCall.op = "DiskSetup"
          => /\ readSet = {fnCall.offsetIndex + i : i \in 0..(Len(DISK_PARAM_LABELS) - 1)}
             /\ params = fnCall.params
             /\ disk.x0 = fnCall.xc
             /\ disk.y0 = fnCall.x
             /\ \A i \in 1..Len(DISK_PARAM_LABELS) :
                   fnCall.offsetIndex + i \in DOMAIN params
                      => disk[DISK_PARAM_LABELS[i]] = params[fnCall.offsetIndex + i]

C5_Witness ==
    /\ fnCall.op = "Setup"
    /\ fnCall.offsetIndex = 2
    /\ mu_0 = params[3]
    /\ sigma = params[4]

\* C6: after Setup with centre x0, mu_0 and sigma > 0, GetValue(x) is
\* I_0 * exp(-(x - x0)^2 / (2 sigma^2)) with I_0 = 10^(0.4 (ZP - mu_0)): it is
\* at most I_0 and equal to I_0 at x = x0, the same at x0 + d and x0 - d, and
\* I_0 * exp(-1/2) at |x - x0| = sigma; with ZP = 25, mu_0 = 20, sigma = 3 and
\* x0 = 16 it is 100.0 at x = 16 and 60.6531 (to 1e-4) at x = 19.
C6_GaussianValue ==
    (fnCall.op = "GetValue" /\ setupArgs.done /\ setupArgs.sigma > 0)
        => LET a == setupArgs
               x == fnCall.x
           IN  /\ value = ClosedForm(x, a)
               /\ value.p = I_0.r
               /\ value.q[1] <= 0
               /\ x = a.xc => value.q = <<0, 1>>
               /\ Abs(x - a.xc) = a.sigma => value.q = <<-1, 2>>
               /\ \A y \in XValues :
                     GetValueOf(x0 + Abs(y - x0), x0, sigma, I_0)
                        = GetValueOf(x0 - Abs(y - x0), x0, sigma, I_0)
               /\ (a.ZP = 25 /\ a.mu_0 = 20 /\ a.sigma = 3 /\ a.xc = 16)
                     => /\ x = 16 => NumericE7(value) = 100 * 10000000
                        /\ x = 19 => Abs(NumericE7(value) - 606531000) <= 1000

C6_Witness ==
    /\ fnCall.op = "GetValue"
    /\ setupArgs.done
    /\ setupArgs.ZP = 25 /\ setupArgs.mu_0 = 20 /\ setupArgs.sigma = 3 /\ setupArgs.xc = 16
    /\ fnCall.x = 19
    /\ value.k = "finite"

C9_ComponentState ==
    /\ [][fnCall'.op = "GetValue"
            => UNCHANGED <<shortFunctionName, params, ZP, x0, mu_0, sigma, I_0>>]_vars
    /\ []((fnCall.op = "GetValue" /\ setupArgs.done)
            => /\ value = GetValueOf(fnCall.x, setupArgs.xc, setupArgs.sigma,
                             pow10(FMul(Fin(R(4, 10)),
                                        FSub(Num(setupArgs.ZP), Num(setupArgs.mu_0)))))
               /\ x0 = setupArgs.xc
               /\ sigma = setupArgs.sigma)

C9_Witness ==
    /\ fnCall.op = "GetValue"
    /\ setupArgs.count = 2
    /\ value.k = "finite"

====
